---- MODULE Spec2Model ----
(***************************************************************************)
(* CapBot: the clan-cap ingestion pipeline of capbot.py and the cap_events *)
(* table of db.py.                                                         *)
(*                                                                         *)
(* The model has the Discord client (timer loop, close), one record per    *)
(* fetch_cap_event_task thread holding the locals of get_clan_cap_events,  *)
(* the upstream web service as a nondeterministic responder, and the       *)
(* cap_events table as the sequence of its rows in rowid order.            *)
(***************************************************************************)
EXTENDS Integers, Sequences, FiniteSets, TLC

\* ---- bounds of the model ------------------------------------------------
MaxRuns == 2            \* threads the timer loop may start
MaxRoster == 7          \* members in the clan listing
MaxTimestamp == 100000  \* largest timestamp put through the date functions

\* ---- program constants --------------------------------------------------
MAX_FAILURES == 5
INITIAL_DELAY == 10
MAX_DELAY == 100
PACING_SLEEP == 3
HTTP_TOO_MANY == 429
max_events == -1
CAP_TEXT == "Capped at my Clan Citadel."

VARIABLES
    store,              \* rows of cap_events, in rowid order
    task_thread,        \* DiscordClient.task_thread: 0 is None, else a thread id
    task_cancel_event,  \* DiscordClient.task_cancel_event.is_set()
    client,             \* "running", "joining" (inside close), "closed"
    last_log,           \* last line the client logged about the task thread
    threads,            \* thread id -> locals of fetch_cap_event_task
    message,            \* the table caplist last sent, as its rendered rows
    probe,              \* a timestamp put through the two date functions
    meter               \* counts of what a metered run has done (observer)

vars == <<store, task_thread, task_cancel_event, client, last_log, threads,
          message, probe, meter>>

ThreadIds == 1..MaxRuns

\* ---- dates and the classifier --------------------------------------------
\* A date string of the activity log.  wellformed is whether it matches
\* "%d-%b-%Y %H:%M"; the month and year are fixed to Jan-1970.
DateStr(d, h, m) == [wellformed |-> TRUE, day |-> d, hour |-> h, minute |-> m]

BadDate == [wellformed |-> FALSE, day |-> 0, hour |-> 0, minute |-> 0]

\* strptime raises ValueError on a string that does not match the format
DateParses(date) == date.wellformed

get_date_timestamp(date) ==
    (((date.day - 1) * 24 + date.hour) * 60 + date.minute) * 60

TwelveHourClock(timestamp) ==
    DateStr(timestamp \div 86400 + 1, ((timestamp % 86400) \div 3600) % 12,
            (timestamp % 3600) \div 60)

\* datetime.fromtimestamp(timestamp, utc).strftime("%d-%b-%Y %H:%M"), for a
\* timestamp in Jan-1970: the seconds are not part of the format
timestamp_to_date(timestamp) ==
    DateStr(timestamp \div 86400 + 1, (timestamp % 86400) \div 3600,
            (timestamp % 3600) \div 60)

Activity(date, text) == [date |-> date, details |-> "", text |-> text]

get_cap_events(activities) == SelectSeq(activities, LAMBDA a : a.text = CAP_TEXT)

\* ---- the upstream service -------------------------------------------------
D1 == DateStr(1, 0, 1)
D2 == DateStr(1, 0, 2)

\* members whose profile may show cap activities
Cappers == {1, 2}

\* activity logs the profile endpoint may serve for member rsn: the first
\* capper's log may repeat a cap, hold a date that does not parse, or hold a
\* second date; the second capper shares a timestamp with the first
ActivityLogs(rsn) ==
    IF rsn = 1 THEN
        { <<>>,
          << Activity(D1, CAP_TEXT), Activity(D2, "Levelled up."), Activity(D1, CAP_TEXT) >>,
          << Activity(D1, CAP_TEXT), Activity(BadDate, CAP_TEXT), Activity(D2, CAP_TEXT) >>,
          << Activity(D2, CAP_TEXT) >> }
    ELSE IF rsn \in Cappers THEN { <<>>, << Activity(D1, CAP_TEXT) >> }
    ELSE { <<>> }

Response(kind, status, error, has, body) ==
    [kind |-> kind, status |-> status, error |-> error,
     has_activities |-> has, body |-> body]

NoResponse == Response("none", 0, "", FALSE, <<>>)

\* what the roster endpoint may answer: the listing, an HTTP failure, or a
\* listing whose numeric fields do not parse
Rosters == { [i \in 1..n |-> i] : n \in {0, MaxRoster} }

RosterResponses ==
    { Response("http", 200, "", FALSE, r) : r \in Rosters }
    \cup { Response("http", 503, "", FALSE, <<>>),
           Response("network_error", 0, "", FALSE, <<>>),
           Response("malformed", 200, "", FALSE, <<>>) }

\* what the profile endpoint may answer for member rsn
ActivityResponses(rsn) ==
    { Response("http", 200, "", TRUE, log) :
        log \in ActivityLogs(rsn) }
    \cup { Response("http", 200, "PROFILE_PRIVATE", FALSE, <<>>),
           Response("http", 200, "NO_PROFILE", FALSE, <<>>),
           Response("http", 200, "", FALSE, <<>>),
           Response("http", HTTP_TOO_MANY, "", FALSE, <<>>),
           Response("http", 500, "", FALSE, <<>>),
           Response("network_error", 0, "", FALSE, <<>>) }

\* ---- fetchers -------------------------------------------------------------
\* raised: "none", "http" (requests.HTTPError) or "other" (any other exception)
Fetched(raised, status, result) ==
    [raised |-> raised, status |-> status, result |-> result]

fetch_clan_members(resp) ==
    IF resp.kind = "network_error" THEN Fetched("other", 0, <<>>)
    ELSE IF resp.status >= 400 THEN Fetched("http", resp.status, <<>>)
    ELSE IF resp.kind = "malformed" THEN Fetched("other", 0, <<>>)
    ELSE Fetched("none", resp.status, resp.body)

ErrorFieldRaises(resp) ==
    IF resp.kind = "network_error" THEN Fetched("other", 0, <<>>)
    ELSE IF resp.status >= 400 THEN Fetched("http", resp.status, <<>>)
    ELSE IF resp.error # "" THEN Fetched("other", 0, <<>>)
    ELSE IF ~resp.has_activities THEN Fetched("other", 0, <<>>)
    ELSE Fetched("none", resp.status, resp.body)

fetch_user_activites(resp) ==
    IF resp.kind = "network_error" THEN Fetched("other", 0, <<>>)
    ELSE IF resp.status >= 400 THEN Fetched("http", resp.status, <<>>)
    ELSE IF resp.error # "" THEN Fetched("none", resp.status, <<>>)
    ELSE IF ~resp.has_activities THEN Fetched("none", resp.status, <<>>)
    ELSE Fetched("none", resp.status, resp.body)

\* ---- the event store ------------------------------------------------------
Row(rsn, ts, source) ==
    [rsn |-> rsn, cap_timestamp |-> ts, source |-> source, manual_user |-> "NULL"]

ConflictsOnTimestamp(s, row) ==
    \E i \in 1..Len(s) : s[i].cap_timestamp = row.cap_timestamp

NeverConflicts(s, row) == FALSE

\* UNIQUE(rsn, cap_timestamp)
Conflicts(s, row) ==
    \E i \in 1..Len(s) : s[i].rsn = row.rsn /\ s[i].cap_timestamp = row.cap_timestamp

InsertAlways(s, row) == Append(s, row)

InsertOrReplace(s, row) ==
    Append(SelectSeq(s, LAMBDA old : old.rsn # row.rsn
                                     \/ old.cap_timestamp # row.cap_timestamp), row)

\* INSERT OR IGNORE of one row
InsertOrIgnore(s, row) == IF Conflicts(s, row) THEN s ELSE Append(s, row)

RECURSIVE executemany(_, _)
executemany(s, rows) ==
    IF rows = <<>> THEN s
    ELSE executemany(InsertOrIgnore(s, Head(rows)), Tail(rows))

insert_rows(cap_events) ==
    [i \in 1..Len(cap_events) |-> Row(cap_events[i][1], cap_events[i][2], "auto")]

\* ---- the locals of one fetch_cap_event_task thread -------------------------
IdleThread ==
    [pc |-> "idle", clan_members |-> <<>>, request_delay |-> 0,
     num_success |-> 0, num_failures |-> 0, index |-> 0,
     user_cap_events |-> <<>>, resp |-> NoResponse,
     cap_events |-> <<>>, exit |-> "", rowcount |-> 0,
     backoffs |-> <<>>, fail_row |-> 0, rejections |-> 0, last_sleep |-> 0]

StartedThread == [IdleThread EXCEPT !.pc = "roster_req"]

Finished(t) == t.pc \in {"idle", "done", "crashed"}

\* no table sent yet
NoMessage == [days |-> -1, width |-> 0, lines |-> <<>>]

\* nothing under conversion
NoProbe == [timestamp |-> 0, date |-> BadDate, parsed |-> 0, converted |-> FALSE]

\* the meter of a run that is not metered, and of one that is
\* (on: requests are counted; detail: the other fields are kept as well)
MeterOff ==
    [on |-> FALSE, detail |-> FALSE, requests |-> 0, last_kind |-> "",
     requests_after_cancel |-> 0, sleeps_after_cancel |-> 0]

MeterRequests == [MeterOff EXCEPT !.on = TRUE]

MeterOn == [MeterOff EXCEPT !.on = TRUE, !.detail = TRUE]

NeverAlive(r) == FALSE

\* Thread.is_alive() of thread r
is_alive(r) == ~Finished(threads[r])

Init ==
    /\ store = <<>>
    /\ task_thread = 0
    /\ task_cancel_event = FALSE
    /\ client = "running"
    /\ last_log = "ready"
    /\ threads = [r \in ThreadIds |-> IdleThread]
    /\ message = NoMessage
    /\ probe = NoProbe
    /\ meter = MeterOff

\* ---- get_clan_cap_events, one loop step at a time --------------------------
\* leaving get_clan_cap_events with its accumulator as the return value
Return(t, reason) ==
    [t EXCEPT !.pc = "insert", !.cap_events = t.user_cap_events, !.exit = reason]

RosterFailedUsesCache(t) ==
    [t EXCEPT !.pc = "loop", !.clan_members = <<1>>,
              !.request_delay = INITIAL_DELAY, !.resp = NoResponse]

\* the roster fetch raised: log and return {}
RosterFailed(t) ==
    [t EXCEPT !.pc = "insert", !.cap_events = <<>>, !.exit = "roster_failed",
              !.resp = NoResponse]

\* the try block around fetch_clan_members and the initialisation of the locals
AfterRoster(t) ==
    LET f == fetch_clan_members(t.resp) IN
    IF f.raised # "none" THEN RosterFailed(t)
    ELSE [t EXCEPT !.pc = "loop", !.clan_members = f.result,
                   !.request_delay = INITIAL_DELAY, !.num_success = 0,
                   !.num_failures = 0, !.index = 0, !.user_cap_events = <<>>,
                   !.resp = NoResponse]

DiscardOnCancel(t) == [Return(t, "cancelled") EXCEPT !.cap_events = <<>>]

\* cancel_event.is_set() at the top of an iteration
OnCancel(t) == Return(t, "cancelled")

LoopTestWithoutPacing(t, cancelled) ==
    IF t.index < Len(t.clan_members)
    THEN IF cancelled THEN OnCancel(t) ELSE [t EXCEPT !.pc = "request"]
    ELSE Return(t, "complete")

\* the while condition and the cancellation check
LoopTest(t, cancelled) ==
    IF t.index < Len(t.clan_members)
    THEN IF cancelled THEN OnCancel(t) ELSE [t EXCEPT !.pc = "pace"]
    ELSE Return(t, "complete")

\* the loop over the member's cap activities: each date is parsed and the pair
\* appended; a date that does not parse raises out of the loop
RECURSIVE CollectCaps(_, _, _)
CollectCaps(rsn, acts, acc) ==
    IF acts = <<>> THEN [events |-> acc, raised |-> FALSE]
    ELSE IF ~DateParses(Head(acts).date) THEN [events |-> acc, raised |-> TRUE]
    ELSE CollectCaps(rsn, Tail(acts),
                     Append(acc, <<rsn, get_date_timestamp(Head(acts).date)>>))

OnSuccessResetsFailures(t) ==
    LET t1 == [t EXCEPT !.num_success = @ + 1, !.num_failures = 0] IN
    IF max_events > 0 /\ t1.num_success >= max_events
    THEN Return(t1, "max_events")
    ELSE [t1 EXCEPT !.index = @ + 1, !.request_delay = INITIAL_DELAY, !.pc = "loop"]

\* the rest of the try body after the appends
OnSuccess(t) ==
    LET t1 == [t EXCEPT !.num_success = @ + 1] IN
    IF max_events > 0 /\ t1.num_success >= max_events
    THEN Return(t1, "max_events")
    ELSE [t1 EXCEPT !.index = @ + 1, !.request_delay = INITIAL_DELAY, !.pc = "loop"]

OnExceptionResetsDelay(t) ==
    LET t1 == [t EXCEPT !.num_failures = @ + 1] IN
    IF t1.num_failures > MAX_FAILURES
    THEN Return(t1, "max_failures")
    ELSE [t1 EXCEPT !.index = @ + 1, !.request_delay = INITIAL_DELAY, !.pc = "loop"]

\* except Exception
OnException(t) ==
    LET t1 == [t EXCEPT !.num_failures = @ + 1] IN
    IF t1.num_failures > MAX_FAILURES
    THEN Return(t1, "max_failures")
    ELSE [t1 EXCEPT !.index = @ + 1, !.pc = "loop"]

OnHTTPErrorSkipsMember(t, status) ==
    IF status = HTTP_TOO_MANY
    THEN [t EXCEPT !.pc = "backoff", !.index = @ + 1]
    ELSE [t EXCEPT !.pc = "crashed", !.exit = "http_error"]

\* except HTTPError: 429 goes to the backoff sleep; any other status is raised
\* again inside the handler, which no later except clause of the same try
\* statement catches, so it leaves get_clan_cap_events and ends the thread
OnHTTPError(t, status) ==
    IF status = HTTP_TOO_MANY
    THEN [t EXCEPT !.pc = "backoff"]
    ELSE [t EXCEPT !.pc = "crashed", !.exit = "http_error"]

\* the body of the try statement and its handlers, given the response
Handle(t) ==
    LET member == t.clan_members[t.index + 1]
        f == fetch_user_activites(t.resp)
        t0 == [t EXCEPT !.resp = NoResponse]
    IN  IF f.raised = "http" THEN OnHTTPError(t0, f.status)
        ELSE IF f.raised = "other" THEN OnException(t0)
        ELSE LET c == CollectCaps(member, get_cap_events(f.result), t.user_cap_events)
                 t1 == [t0 EXCEPT !.user_cap_events = c.events]
             IN  IF c.raised THEN OnException(t1) ELSE OnSuccess(t1)

TripleDelay(d) == d * 3

\* request_delay *= 2
NextDelay(d) == d * 2

AfterBackoffHighCeiling(t) ==
    LET t1 == [t EXCEPT !.request_delay = NextDelay(@)] IN
    IF t1.request_delay > MAX_DELAY * 2
    THEN Return(t1, "max_delay")
    ELSE [t1 EXCEPT !.pc = "loop"]

\* after time.sleep(request_delay) in the 429 handler
AfterBackoff(t) ==
    LET t1 == [t EXCEPT !.request_delay = NextDelay(@)] IN
    IF t1.request_delay > MAX_DELAY
    THEN Return(t1, "max_delay")
    ELSE [t1 EXCEPT !.pc = "loop"]

\* ---- observers (history kept in the thread record) -------------------------
\* backoffs: the backoff sleeps of the current run of consecutive 429
\* responses, each with the member it was for; fail_row: the members that
\* failed in a row with an error other than 429
IsRejection(resp) == resp.kind = "http" /\ resp.status = HTTP_TOO_MANY

IsFailure(t) ==
    LET f == fetch_user_activites(t.resp) IN
    \/ f.raised = "other"
    \/ f.raised = "http" /\ f.status # HTTP_TOO_MANY
    \/ f.raised = "none" /\
       CollectCaps(0, get_cap_events(f.result), <<>>).raised

ObserveResponse(t, t2) ==
    IF IsRejection(t.resp) THEN t2
    ELSE [t2 EXCEPT !.backoffs = <<>>,
                    !.fail_row = IF IsFailure(t) THEN @ + 1 ELSE 0,
                    !.rejections = IF IsFailure(t) THEN @ ELSE 0]

\* rejections: the backoff sleeps since the last successful fetch;
\* last_sleep: the length of the thread's latest time.sleep
ObserveBackoff(t, t2) ==
    [t2 EXCEPT !.backoffs =
        Append(@, [rsn |-> t.clan_members[t.index + 1], delay |-> t.request_delay]),
               !.rejections = @ + 1,
               !.last_sleep = t.request_delay]

\* how the response in t.resp is handled: "rejected" (429), "failed" (any
\* other exception), "soft" (error field or no activities) or "ok"
ResponseKind(t) ==
    IF IsRejection(t.resp) THEN "rejected"
    ELSE IF IsFailure(t) THEN "failed"
    ELSE IF t.resp.error # "" \/ ~t.resp.has_activities THEN "soft"
    ELSE "ok"

MeterRequest(m, cancelled) ==
    IF ~m.on THEN m
    ELSE [m EXCEPT !.requests = @ + 1,
                   !.requests_after_cancel =
                       IF m.detail /\ cancelled THEN @ + 1 ELSE @]

MeterResponse(m, t) ==
    IF ~m.detail THEN m ELSE [m EXCEPT !.last_kind = ResponseKind(t)]

MeterBackoff(m, cancelled) ==
    IF ~m.detail THEN m
    ELSE [m EXCEPT !.sleeps_after_cancel = IF cancelled THEN @ + 1 ELSE @]

\* time.sleep(3) is over and the request goes out
Pace(t) == [t EXCEPT !.pc = "request", !.last_sleep = PACING_SLEEP]

\* ---- actions of a thread ---------------------------------------------------
SetThread(r, t) == threads' = [threads EXCEPT ![r] = t]

\* the clan listing endpoint answers
RosterRespond(r) ==
    /\ threads[r].pc = "roster_req"
    /\ \E resp \in RosterResponses :
          SetThread(r, [threads[r] EXCEPT !.pc = "roster_resp", !.resp = resp])
    /\ UNCHANGED <<store, task_thread, task_cancel_event, client, last_log,
                   message, probe, meter>>

RosterHandle(r) ==
    /\ threads[r].pc = "roster_resp"
    /\ SetThread(r, AfterRoster(threads[r]))
    /\ UNCHANGED <<store, task_thread, task_cancel_event, client, last_log,
                   message, probe, meter>>

LoopStep(r) ==
    /\ threads[r].pc = "loop"
    /\ SetThread(r, LoopTest(threads[r], task_cancel_event))
    /\ UNCHANGED <<store, task_thread, task_cancel_event, client, last_log,
                   message, probe, meter>>

\* time.sleep(3), then the request is sent
PaceSleep(r) ==
    /\ threads[r].pc = "pace"
    /\ SetThread(r, Pace(threads[r]))
    /\ meter' = MeterRequest(meter, task_cancel_event)
    /\ UNCHANGED <<store, task_thread, task_cancel_event, client, last_log,
                   message, probe>>

\* the profile endpoint answers
ActivityRespond(r) ==
    /\ threads[r].pc = "request"
    /\ \E resp \in ActivityResponses(threads[r].clan_members[threads[r].index + 1]) :
          SetThread(r, [threads[r] EXCEPT !.pc = "response", !.resp = resp])
    /\ UNCHANGED <<store, task_thread, task_cancel_event, client, last_log,
                   message, probe, meter>>

HandleResponse(r) ==
    /\ threads[r].pc = "response"
    /\ SetThread(r, ObserveResponse(threads[r], Handle(threads[r])))
    /\ meter' = MeterResponse(meter, threads[r])
    /\ UNCHANGED <<store, task_thread, task_cancel_event, client, last_log,
                   message, probe>>

\* time.sleep(request_delay) and the doubling after it
BackoffSleep(r) ==
    /\ threads[r].pc = "backoff"
    /\ SetThread(r, ObserveBackoff(threads[r], AfterBackoff(threads[r])))
    /\ meter' = MeterBackoff(meter, task_cancel_event)
    /\ UNCHANGED <<store, task_thread, task_cancel_event, client, last_log,
                   message, probe>>

\* fetch_cap_event_task after get_clan_cap_events returned: one committed
\* executemany
InsertRows(r) ==
    /\ threads[r].pc = "insert"
    /\ store' = executemany(store, insert_rows(threads[r].cap_events))
    /\ SetThread(r, [threads[r] EXCEPT !.pc = "done",
                                       !.rowcount = Len(store') - Len(store)])
    /\ UNCHANGED <<task_thread, task_cancel_event, client, last_log,
                   message, probe, meter>>

\* ---- actions of the client -------------------------------------------------
\* the 15-minute loop fires
update_database_task ==
    /\ client = "running"
    /\ IF task_thread # 0 /\ is_alive(task_thread)
       THEN /\ last_log' = "skipping"
            /\ UNCHANGED <<store, task_thread, task_cancel_event, client, threads>>
       ELSE /\ task_thread < MaxRuns
            /\ task_thread' = task_thread + 1
            /\ last_log' = "starting"
            /\ threads' = [r \in ThreadIds |->
                  IF r = task_thread + 1 THEN StartedThread
                  ELSE IF Finished(threads[r]) THEN IdleThread
                  ELSE threads[r]]
            /\ UNCHANGED <<store, task_cancel_event, client>>
    /\ UNCHANGED <<message, probe, meter>>

\* close() up to the join
close ==
    /\ client = "running"
    /\ IF task_thread # 0 /\ is_alive(task_thread)
       THEN /\ task_cancel_event' = TRUE
            /\ client' = "joining"
       ELSE /\ client' = "closed"
            /\ UNCHANGED task_cancel_event
    /\ UNCHANGED <<store, task_thread, last_log, threads, message, probe, meter>>

\* join(timeout=30) returns, the thread having ended or not
join_returns ==
    /\ client = "joining"
    /\ client' = "closed"
    /\ last_log' = IF is_alive(task_thread) THEN "join_timeout" ELSE last_log
    /\ UNCHANGED <<store, task_thread, task_cancel_event, threads,
                   message, probe, meter>>

Next ==
    \/ update_database_task
    \/ close
    \/ join_returns
    \/ \E r \in ThreadIds : RosterRespond(r)
    \/ \E r \in ThreadIds : RosterHandle(r)
    \/ \E r \in ThreadIds : LoopStep(r)
    \/ \E r \in ThreadIds : PaceSleep(r)
    \/ \E r \in ThreadIds : ActivityRespond(r)
    \/ \E r \in ThreadIds : HandleResponse(r)
    \/ \E r \in ThreadIds : BackoffSleep(r)
    \/ \E r \in ThreadIds : InsertRows(r)

Spec == Init /\ [][Next]_vars

\* ---- properties --------------------------------------------------------------
Range(f) == { f[i] : i \in DOMAIN f }

IsPrefix(a, b) == Len(a) <= Len(b) /\ SubSeq(b, 1, Len(a)) = a

Returned(t) == t.pc \in {"insert", "done"}

StaysReturned(r) ==
    Returned(threads[r]) => threads'[r].pc \in {"insert", "done", "idle"}

Stored(e) == \E j \in 1..Len(store) : store[j] = Row(e[1], e[2], "auto")

\* C1: the store never holds two rows with the same (rsn, cap_timestamp), and
\* an insert of pairs that are already stored completes (the thread reaches
\* done, it does not crash) and leaves every stored row where it was; if all
\* pairs of the batch are already stored the store is unchanged.
NoDuplicateRows ==
    \A i, j \in 1..Len(store) :
        (store[i].rsn = store[j].rsn /\ store[i].cap_timestamp = store[j].cap_timestamp)
            => i = j

ReinsertIsNoOp ==
    \A r \in ThreadIds :
        (threads[r].pc = "insert" /\ threads'[r] # threads[r]) =>
            /\ threads'[r].pc = "done"
            /\ IsPrefix(store, store')
            /\ (\A i \in 1..Len(threads[r].cap_events) :
                    Conflicts(store, insert_rows(threads[r].cap_events)[i]))
                => store' = store

C1_UniqueRows == []NoDuplicateRows /\ [][ReinsertIsNoOp]_vars

\* a second run has committed a batch that repeats a pair and whose pairs were
\* all stored by the first run
C1_Witness ==
    /\ task_thread = 2
    /\ threads[2].pc = "done"
    /\ Len(threads[2].cap_events) >= 2
    /\ threads[2].cap_events[1] = threads[2].cap_events[2]
    /\ threads[2].rowcount = 0
    /\ Len(store) >= 1

\* C2: at most one fetch_cap_event_task thread is alive at any time; a firing
\* of the timer while the thread is alive (the one that logs "skipping")
\* starts nothing and changes neither task_thread nor any thread; a thread
\* starts only in a firing at which no thread is alive.
AliveThreads == { r \in ThreadIds : ~Finished(threads[r]) }

AtMostOneRun == Cardinality(AliveThreads) <= 1

SkippedFiringStartsNothing ==
    (last_log' = "skipping" /\ last_log # "skipping") =>
        /\ AliveThreads # {}
        /\ threads' = threads
        /\ task_thread' = task_thread

RunStartsOnlyWhenNoneAlive ==
    \A r \in ThreadIds :
        (threads'[r].pc = "roster_req" /\ threads[r].pc # "roster_req") =>
            /\ AliveThreads = {}
            /\ last_log' = "starting"
            /\ task_thread' = r
            /\ client = "running"

C2_OneRunInFlight ==
    []AtMostOneRun /\ [][SkippedFiringStartsNothing /\ RunStartsOnlyWhenNoneAlive]_vars

\* the timer fired while the second run was alive, after the first had ended
C2_Witness ==
    /\ last_log = "skipping"
    /\ task_thread = 2
    /\ threads[2].pc = "request"
    /\ AliveThreads = {2}

\* C3 (as claimed): when the activity fetch fails with an error other than
\* HTTP 429, an HTTP error response with another status included, and the
\* failure counter does not thereby exceed 5, the handler counts the failure,
\* advances the index, keeps the accumulator and goes on with the loop.
FetchFails(resp) ==
    \/ resp.kind = "network_error"
    \/ resp.kind = "http" /\ resp.status >= 400 /\ resp.status # HTTP_TOO_MANY

FailureIsSkipped(r) ==
    (/\ threads[r].pc = "response"
     /\ threads'[r] # threads[r]
     /\ FetchFails(threads[r].resp)
     /\ threads[r].num_failures + 1 <= MAX_FAILURES) =>
        /\ threads'[r].num_failures = threads[r].num_failures + 1
        /\ threads'[r].index = threads[r].index + 1
        /\ threads'[r].user_cap_events = threads[r].user_cap_events
        /\ threads'[r].pc = "loop"

C3_Claim == [][\A r \in ThreadIds : FailureIsSkipped(r)]_vars

\* C4: the backoff sleeps of a run of consecutive 429 responses that starts at
\* delay 10 are 10, 20, 40, 80 in that order, all for the same member; after
\* the fourth the run has left the loop (exit max_delay) and requests nothing
\* more; a success after 1 to 3 rejections is for the rejected member and
\* appends that member's cap events to the accumulator, which only grows and
\* is what the run returns.
BackoffSchedule ==
    \A r \in ThreadIds :
        LET b == threads[r].backoffs IN
        (Len(b) > 0 /\ b[1].delay = INITIAL_DELAY) =>
            /\ Len(b) <= 4
            /\ \A i \in 1..Len(b) :
                  b[i].delay = INITIAL_DELAY * 2^(i - 1) /\ b[i].rsn = b[1].rsn
            /\ Len(b) = 4 =>
                  /\ Returned(threads[r])
                  /\ threads[r].exit = "max_delay"
                  /\ threads[r].cap_events = threads[r].user_cap_events

CapPairs(rsn, activities) ==
    LET caps == get_cap_events(activities) IN
    [i \in 1..Len(caps) |-> <<rsn, get_date_timestamp(caps[i].date)>>]

IsSuccess(resp) ==
    /\ resp.kind = "http" /\ resp.status = 200
    /\ \A i \in 1..Len(resp.body) :
          resp.body[i].text = CAP_TEXT => resp.body[i].date.wellformed

RetrySucceeds(r) ==
    LET t == threads[r] b == threads[r].backoffs IN
    (/\ t.pc = "response" /\ threads'[r] # t
     /\ IsSuccess(t.resp)
     /\ Len(b) \in 1..3 /\ b[1].delay = INITIAL_DELAY) =>
        /\ t.clan_members[t.index + 1] = b[1].rsn
        /\ threads'[r].user_cap_events =
              t.user_cap_events \o
              (IF t.resp.error = "" /\ t.resp.has_activities
               THEN CapPairs(b[1].rsn, t.resp.body) ELSE <<>>)

AccumulatorGrows(r) ==
    (threads[r].pc \notin {"idle", "roster_req", "roster_resp"}
        /\ threads'[r].pc # "idle" /\ threads'[r].pc # "roster_req") =>
        /\ IsPrefix(threads[r].user_cap_events, threads'[r].user_cap_events)
        /\ (Returned(threads'[r]) /\ threads'[r].exit # "roster_failed")
              => threads'[r].cap_events = threads'[r].user_cap_events

C4_Backoff ==
    /\ []BackoffSchedule
    /\ [][\A r \in ThreadIds :
            RetrySucceeds(r) /\ AccumulatorGrows(r) /\ StaysReturned(r)]_vars

\* the run was aborted by the fourth rejection in a row, after a member that
\* had been rejected and retried contributed events
C4_Witness ==
    \E r \in ThreadIds :
        /\ Len(threads[r].backoffs) = 4
        /\ threads[r].backoffs[4].delay = 80
        /\ threads[r].exit = "max_delay"
        /\ threads[r].pc = "done"
        /\ threads[r].cap_events # <<>>

\* C5 (as claimed): of members failing in a row with errors other than 429,
\* the first five are skipped (the run is not ended by any of these failures)
\* and the sixth ends the run, which returns its accumulator.
SixFailuresAbort ==
    \A r \in ThreadIds :
        LET t == threads[r] IN
        /\ t.fail_row \in 1..MAX_FAILURES => t.exit \notin {"max_failures", "http_error"}
        /\ t.fail_row = MAX_FAILURES + 1 =>
              /\ Returned(t) /\ t.exit = "max_failures"
              /\ t.cap_events = t.user_cap_events
        /\ t.fail_row <= MAX_FAILURES + 1

C5_Claim == SixFailuresAbort

\* C6: when the loop test finds the cancellation flag set, the run returns
\* its accumulator as it is, and a run that has returned never sleeps or
\* requests again; with the flag set at the first test the batch is empty.
CancelReturnsAccumulator(r) ==
    LET t == threads[r] IN
    (t.pc = "loop" /\ task_cancel_event /\ threads'[r] # t) =>
        /\ threads'[r].pc = "insert"
        /\ threads'[r].cap_events = t.user_cap_events
        /\ threads'[r].user_cap_events = t.user_cap_events
        /\ (t.index = 0 /\ t.backoffs = <<>>) => threads'[r].cap_events = <<>>

C6_Cancel ==
    [][\A r \in ThreadIds : CancelReturnsAccumulator(r) /\ StaysReturned(r)]_vars

\* a run cancelled in mid-roster has returned the events gathered so far
C6_Witness ==
    \E r \in ThreadIds :
        /\ threads[r].exit = "cancelled"
        /\ threads[r].pc = "insert"
        /\ threads[r].index > 0
        /\ threads[r].index < Len(threads[r].clan_members)
        /\ Len(threads[r].cap_events) > 0

\* C7: once fetch_cap_event_task is done for a run that ended by
\* cancellation, by the backoff ceiling or by the failure ceiling, every pair
\* the run had accumulated is a row of the store with source auto.
PartialResultsCommitted ==
    \A r \in ThreadIds :
        (threads[r].pc = "done"
            /\ threads[r].exit \in {"cancelled", "max_delay", "max_failures"}) =>
            \A i \in 1..Len(threads[r].user_cap_events) :
                Stored(threads[r].user_cap_events[i])

C7_PartialCommitted == PartialResultsCommitted

\* a run ended by the failure ceiling has committed the events gathered before
C7_Witness ==
    \E r \in ThreadIds :
        /\ threads[r].pc = "done"
        /\ threads[r].exit = "max_failures"
        /\ threads[r].user_cap_events # <<>>
        /\ threads[r].rowcount >= 1

\* C8: inserting a batch a second time changes nothing.  The store is
\* driven with every batch of up to MaxBatch pairs (StoreSpec): after every
\* commit, inserting the committed batch again, or any batch twice instead
\* of once, leaves the same store and so the same result of every recency
\* query.
MaxBatch == 2

BatchPairs == Cappers \X {get_date_timestamp(D1), get_date_timestamp(D2)}

Batches == UNION { [1..n -> BatchPairs] : n \in 0..MaxBatch }

\* get_clan_cap_events returns some batch to fetch_cap_event_task
RunReturns(r) ==
    /\ threads[r].pc \in {"idle", "done"}
    /\ \E batch \in Batches :
          SetThread(r, [IdleThread EXCEPT !.pc = "insert", !.cap_events = batch,
                                          !.user_cap_events = batch,
                                          !.exit = "complete"])
    /\ UNCHANGED <<store, task_thread, task_cancel_event, client, last_log,
                   message, probe, meter>>

StoreNext == RunReturns(1) \/ InsertRows(1)

StoreSpec == Init /\ [][StoreNext]_vars

\* the SELECT of caplist
select_since(s, timestamp) ==
    LET hits == SelectSeq(s, LAMBDA row : row.cap_timestamp >= timestamp) IN
    [i \in 1..Len(hits) |-> <<hits[i].rsn, hits[i].cap_timestamp>>]

InsertBatch(s, batch) == executemany(s, insert_rows(batch))

Idempotent(s, batch) ==
    /\ InsertBatch(InsertBatch(s, batch), batch) = InsertBatch(s, batch)
    /\ \A ts \in {0, get_date_timestamp(D1), get_date_timestamp(D2),
                  get_date_timestamp(D2) + 60} :
          select_since(InsertBatch(InsertBatch(s, batch), batch), ts)
              = select_since(InsertBatch(s, batch), ts)

InsertTwiceIsOnce(r) ==
    (threads[r].pc = "insert" /\ threads'[r].pc = "done") =>
        /\ store' = InsertBatch(store, threads[r].cap_events)
        /\ InsertBatch(store', threads[r].cap_events) = store'
        /\ \A batch \in Batches : Idempotent(store', batch)

C8_Idempotent == [][\A r \in ThreadIds : InsertTwiceIsOnce(r)]_vars

\* a batch of two different pairs was committed a second time, in the next
\* run, and inserted no row
C8_Witness ==
    /\ threads[1].pc = "done"
    /\ Len(threads[1].cap_events) = 2
    /\ threads[1].rowcount = 0
    /\ store = InsertBatch(<<>>, threads[1].cap_events)
    /\ Len(store) = 2

\* C9: when the roster fetch fails (HTTP failure, network error, or a listing
\* that does not parse), the run returns an empty result without entering the
\* loop, so no member is requested, and its commit leaves the store as it was.
RosterFetchFails(resp) ==
    resp.kind \in {"network_error", "malformed"} \/ resp.status >= 400

RosterFailureIsEmptyRun(r) ==
    LET t == threads[r] IN
    /\ (t.pc = "roster_resp" /\ threads'[r] # t /\ RosterFetchFails(t.resp)) =>
          /\ threads'[r].pc = "insert"
          /\ threads'[r].cap_events = <<>>
          /\ threads'[r].exit = "roster_failed"
    /\ (t.exit = "roster_failed" /\ threads'[r] # t) =>
          /\ store' = store
          /\ threads'[r].pc \in {"done", "idle"}

C9_RosterFailure == [][\A r \in ThreadIds : RosterFailureIsEmptyRun(r)]_vars

\* a second run whose roster fetch failed is done and the store still holds
\* what the first run committed
C9_Witness ==
    /\ task_thread = 2
    /\ threads[2].pc = "done"
    /\ threads[2].exit = "roster_failed"
    /\ threads[2].rowcount = 0
    /\ Len(store) = 2

\* C10 (as claimed): when a cap activity's date does not parse, the member's
\* other cap activities, before and after it, are all appended and the run
\* goes on with the next member.
ParseableCapPairs(rsn, activities) ==
    CapPairs(rsn, SelectSeq(activities, LAMBDA a : a.date.wellformed))

HasUnparseableCap(resp) ==
    /\ resp.kind = "http" /\ resp.status = 200
    /\ resp.error = "" /\ resp.has_activities
    /\ \E i \in 1..Len(resp.body) :
          resp.body[i].text = CAP_TEXT /\ ~resp.body[i].date.wellformed

OnlyBadActivitySkipped(r) ==
    LET t == threads[r] IN
    (t.pc = "response" /\ threads'[r] # t /\ HasUnparseableCap(t.resp)
        /\ t.num_failures < MAX_FAILURES) =>
        /\ threads'[r].user_cap_events =
              t.user_cap_events \o
                  ParseableCapPairs(t.clan_members[t.index + 1], t.resp.body)
        /\ threads'[r].pc = "loop"
        /\ threads'[r].index = t.index + 1

C10_Claim == [][\A r \in ThreadIds : OnlyBadActivitySkipped(r)]_vars

\* ---- one metered run --------------------------------------------------------
\* The state right after the first firing of the timer, with the meter on:
\* one thread runs to its end, and the client may close meanwhile.
RunStarted ==
    /\ store = <<>>
    /\ task_thread = 1
    /\ task_cancel_event = FALSE
    /\ client = "running"
    /\ last_log = "starting"
    /\ threads = [r \in ThreadIds |-> IF r = 1 THEN StartedThread ELSE IdleThread]
    /\ message = NoMessage
    /\ probe = NoProbe

RunInit == RunStarted /\ meter = MeterOn

ThreadStep(r) ==
    \/ RosterRespond(r)
    \/ RosterHandle(r)
    \/ LoopStep(r)
    \/ PaceSleep(r)
    \/ ActivityRespond(r)
    \/ HandleResponse(r)
    \/ BackoffSleep(r)
    \/ InsertRows(r)

RunNext ==
    \/ RosterRespond(1)
    \/ RosterHandle(1)
    \/ LoopStep(1)
    \/ PaceSleep(1)
    \/ ActivityRespond(1)
    \/ HandleResponse(1)
    \/ BackoffSleep(1)
    \/ InsertRows(1)
    \/ close
    \/ join_returns

RunSpec == RunInit /\ [][RunNext]_vars

\* the same run with only its requests counted, the thread being scheduled
\* and every request answered
CountInit == RunStarted /\ meter = MeterRequests

FairRunSpec == CountInit /\ [][RunNext]_vars /\ WF_vars(ThreadStep(1))

\* C11: a response that carries an error field (private profile or other) or
\* lacks the activities field is handled as a fetch without events: the
\* accumulator and the failure counter are unchanged, the index advances, and
\* the index then stays until the next request goes out, so that request is
\* for the next member and the soft-failed one is not asked again.
IsSoftFailure(resp) ==
    /\ resp.kind = "http" /\ resp.status = 200
    /\ (resp.error # "" \/ ~resp.has_activities)

SoftFailureAdvances(r) ==
    LET t == threads[r] IN
    (t.pc = "response" /\ threads'[r] # t /\ IsSoftFailure(t.resp)) =>
        /\ threads'[r].user_cap_events = t.user_cap_events
        /\ threads'[r].num_failures = t.num_failures
        /\ threads'[r].fail_row = 0
        /\ threads'[r].index = t.index + 1
        /\ threads'[r].pc = "loop"

IndexKeptUntilRequest(r) ==
    (threads[r].pc \in {"loop", "pace"} /\ threads'[r].pc \in {"pace", "request"}) =>
        threads'[r].index = threads[r].index

C11_SoftFailure ==
    [][\A r \in ThreadIds : SoftFailureAdvances(r) /\ IndexKeptUntilRequest(r)]_vars

\* the first member's fetch failed softly and the second request of the run
\* is out, for the second member, with nothing counted or gathered
C11_Witness ==
    /\ meter.last_kind = "soft"
    /\ meter.requests = 2
    /\ threads[1].pc = "request"
    /\ threads[1].index = 1
    /\ threads[1].num_failures = 0
    /\ threads[1].user_cap_events = <<>>

\* ---- the date functions on their own ------------------------------------------
\* A timestamp is drawn, formatted by timestamp_to_date and the string parsed
\* by get_date_timestamp.
DateInit ==
    /\ store = <<>>
    /\ task_thread = 0
    /\ task_cancel_event = FALSE
    /\ client = "running"
    /\ last_log = "ready"
    /\ threads = [r \in ThreadIds |-> IdleThread]
    /\ message = NoMessage
    /\ meter = MeterOff
    /\ \E t \in 0..MaxTimestamp : probe = [NoProbe EXCEPT !.timestamp = t]

format_and_parse ==
    /\ ~probe.converted
    /\ LET date == timestamp_to_date(probe.timestamp) IN
       probe' = [timestamp |-> probe.timestamp, date |-> date,
                 parsed |-> get_date_timestamp(date), converted |-> TRUE]
    /\ UNCHANGED <<store, task_thread, task_cancel_event, client, last_log,
                   threads, message, meter>>

DateNext == format_and_parse

DateSpec == DateInit /\ [][DateNext]_vars

\* C12 (as claimed): formatting any timestamp and parsing the string gives
\* the timestamp back.
C12_Claim == probe.converted => probe.parsed = probe.timestamp

\* C12 (amended): formatting a timestamp and parsing the string gives back
\* the timestamp without its seconds, t - (t mod 60); so it gives back t
\* exactly when t is a whole number of minutes.
C12_RoundTripOfMinutes ==
    probe.converted =>
        /\ probe.date.wellformed
        /\ probe.parsed = probe.timestamp - (probe.timestamp % 60)
        /\ (probe.timestamp % 60 = 0 => probe.parsed = probe.timestamp)

\* 02-Jan-1970 01:01 went through both functions and came back
C12_Witness ==
    /\ probe.converted
    /\ probe.timestamp = 86400 + 3600 + 60
    /\ probe.date = DateStr(2, 1, 1)
    /\ probe.parsed = probe.timestamp

\* ---- the query path -------------------------------------------------------------
\* the values /caplist is called with, and the clock readings at the call
Days == {0, 7}

Nows == {100}

\* rows.sort(key=lambda pair: pair[1], reverse=True): a stable sort, larger
\* timestamps first
InsertByDate(sorted, pair) ==
    LET k == Cardinality({ i \in 1..Len(sorted) : sorted[i][2] >= pair[2] }) IN
    SubSeq(sorted, 1, k) \o <<pair>> \o SubSeq(sorted, k + 1, Len(sorted))

RECURSIVE SortByDate(_)
SortByDate(pairs) ==
    IF pairs = <<>> THEN <<>>
    ELSE InsertByDate(SortByDate(SubSeq(pairs, 1, Len(pairs) - 1)), pairs[Len(pairs)])

\* the table: its width comes from the sorted copy rows (a date is 17
\* characters; members are identifiers here, so the name column's width is
\* left out), its lines are written in a loop over results, the list as fetched
Render(days, results) ==
    LET rows == SortByDate(results)
        longest_date == IF rows = <<>> THEN 0 ELSE 17
    IN  [days |-> days,
         width |-> longest_date + 3 + 4,
         lines |-> [i \in 1..Len(results) |->
                      <<results[i][1], timestamp_to_date(results[i][2])>>]]

\* the caplist command: a SELECT without ORDER BY returns the matching rows
\* in an order of the engine's choosing
caplist ==
    /\ client = "running"
    /\ \E days \in Days, now \in Nows :
          LET hits == select_since(store, now - days * 86400) IN
          \E order \in Permutations(1..Len(hits)) :
              message' = Render(days, [i \in 1..Len(hits) |-> hits[order[i]]])
    /\ UNCHANGED <<store, task_thread, task_cancel_event, client, last_log,
                   threads, probe, meter>>

QueryNext == RunReturns(1) \/ InsertRows(1) \/ caplist

QuerySpec == Init /\ [][QueryNext]_vars

\* C13 (as claimed): the lines of the table caplist sends are in
\* non-increasing order of timestamp.
C13_Claim ==
    \A i, j \in 1..Len(message.lines) :
        i < j => get_date_timestamp(message.lines[i][2])
                     >= get_date_timestamp(message.lines[j][2])

\* C17: the store is append-only. Over every step of ingestion runs and
\* caplist queries the rows stored before the step are still there, unchanged
\* and at the same place, so the set of stored rows only grows; a caplist
\* query leaves the store as it was.
C17_AppendOnly ==
    [][/\ IsPrefix(store, store')
       /\ Range(store) \subseteq Range(store')
       /\ message' # message => store' = store]_vars

\* rows were stored, a table was sent, and a later run has stored one more row
C17_Witness ==
    /\ message.lines # <<>>
    /\ threads[1].pc = "done"
    /\ threads[1].rowcount = 1
    /\ Len(threads[1].cap_events) = 2
    /\ Len(store) = 3

\* a response that the except Exception handler ends up with: the fetch
\* raised something other than an HTTPError, or a cap's date did not parse
IsCountedFailure(t) ==
    LET f == fetch_user_activites(t.resp) IN
    \/ f.raised = "other"
    \/ f.raised = "none" /\ CollectCaps(0, get_cap_events(f.result), <<>>).raised

\* a response that runs the try body to its end
IsFetched(t) == ResponseKind(t) \in {"ok", "soft"}

InLoop(t) == t.pc \in {"loop", "pace", "request", "response", "backoff"}

FailuresCounted(r) ==
    LET t == threads[r]
        t2 == threads'[r]
    IN  /\ (t.pc = "response" /\ t2 # t /\ IsFetched(t)) =>
              /\ t2.num_failures = t.num_failures
              /\ t2.num_success = t.num_success + 1
        /\ (t.pc = "response" /\ t2 # t /\ IsCountedFailure(t)) =>
              /\ t2.num_failures = t.num_failures + 1
              /\ t2.exit = "max_failures" <=> t2.num_failures > MAX_FAILURES
              /\ t2.exit = "max_failures" => t2.pc = "insert"
              /\ t2.exit # "max_failures" => t2.pc = "loop" /\ t2.index = t.index + 1
        /\ (InLoop(t) /\ t2.pc # "idle") => t2.num_failures >= t.num_failures

RejectionFrame(r) ==
    LET t == threads[r]
        t2 == threads'[r]
        Kept == /\ t2.index = t.index
                /\ t2.num_failures = t.num_failures
                /\ t2.num_success = t.num_success
                /\ t2.user_cap_events = t.user_cap_events
    IN  /\ (t.pc = "response" /\ t2 # t /\ IsRejection(t.resp)) =>
              Kept /\ t2.pc = "backoff" /\ t2.request_delay = t.request_delay
        /\ (t.pc = "backoff" /\ t2 # t) =>
              /\ Kept
              /\ t2.request_delay = 2 * t.request_delay
              /\ \/ t2.pc = "loop"
                 \/ t2.pc = "insert" /\ t2.exit = "max_delay"

RetryIsForSameMember ==
    \A r \in ThreadIds :
        LET t == threads[r] IN
        (t.pc \in {"loop", "pace", "request", "response"} /\ t.backoffs # <<>>) =>
            /\ t.index < Len(t.clan_members)
            /\ t.clan_members[t.index + 1] = t.backoffs[Len(t.backoffs)].rsn

C15_RejectionFrame ==
    /\ []RetryIsForSameMember
    /\ [][\A r \in ThreadIds : RejectionFrame(r)]_vars

\* member 1 was fetched with a cap, member 2 was rejected once and the retry
\* for member 2 is out
C15_Witness ==
    /\ threads[1].pc = "request"
    /\ Len(threads[1].backoffs) = 1
    /\ threads[1].backoffs[1].rsn = 2
    /\ threads[1].index = 1
    /\ threads[1].num_success = 1
    /\ threads[1].user_cap_events # <<>>
    /\ threads[1].request_delay = 2 * INITIAL_DELAY

\* C16: every activity request is sent right after the pacing sleep of its own
\* iteration: a request is only reached from the pacing sleep, the thread's
\* latest sleep is then the pacing sleep (not a backoff sleep), and the pacing
\* sleep is only reached from a loop test that found a member left and the
\* cancellation flag clear.
RequestAfterPacing ==
    \A r \in ThreadIds :
        threads[r].pc = "request" => threads[r].last_sleep = PACING_SLEEP

PacingOrder(r) ==
    LET t == threads[r]
        t2 == threads'[r]
    IN  /\ (t2.pc = "request" /\ t.pc # "request") => t.pc = "pace"
        /\ (t2.pc = "pace" /\ t.pc # "pace") =>
              /\ t.pc = "loop"
              /\ ~task_cancel_event
              /\ t.index < Len(t.clan_members)
        /\ (t.pc = "request" /\ t2 # t) => t2.pc = "response"
        /\ (t.pc \in {"response", "backoff"} /\ t2 # t) => t2.pc \notin {"pace", "request"}

C16_PacingSleep ==
    /\ []RequestAfterPacing
    /\ [][\A r \in ThreadIds : PacingOrder(r)]_vars

\* member 1 was skipped after a network error, member 2 was rejected and slept
\* the backoff; its retry is out, after a pacing sleep
C16_Witness ==
    /\ threads[1].pc = "request"
    /\ threads[1].index = 1
    /\ threads[1].num_failures = 1
    /\ threads[1].rejections = 1
    /\ threads[1].last_sleep = PACING_SLEEP

\* C18: inside the loop request_delay is INITIAL_DELAY doubled once per 429
\* rejection since the last member was fetched (or since the run started), at
\* most three times, so it is 10, 20, 40 or 80; a fetch sets it to
\* INITIAL_DELAY, a failure that skips the member leaves it as it is.
DelayIsPowerOfRejections ==
    \A r \in ThreadIds :
        LET t == threads[r] IN
        InLoop(t) =>
            /\ t.rejections <= 3
            /\ t.request_delay = INITIAL_DELAY * 2^t.rejections
            /\ t.request_delay \in {10, 20, 40, 80}

DelayReset(r) ==
    LET t == threads[r]
        t2 == threads'[r]
    IN  /\ (t.pc = "response" /\ t2 # t /\ IsFetched(t)) =>
              t2.request_delay = INITIAL_DELAY
        /\ (t.pc = "response" /\ t2 # t /\ IsCountedFailure(t)) =>
              t2.request_delay = t.request_delay
        /\ (InLoop(t) /\ InLoop(t2) /\ t2.request_delay < t.request_delay) =>
              t.pc = "response" /\ IsFetched(t)

C18_DelaySchedule ==
    /\ []DelayIsPowerOfRejections
    /\ [][\A r \in ThreadIds : DelayReset(r)]_vars

\* the run hit the ceiling with rejections of two members, a skipped member
\* between them and no fetch: the last member was rejected fewer than 4 times
C18_Witness ==
    /\ threads[1].exit = "max_delay"
    /\ threads[1].rejections = 4
    /\ Len(threads[1].backoffs) \in 1..3
    /\ threads[1].num_success = 0
    /\ threads[1].num_failures >= 1

\* C19: a run of get_clan_cap_events ends, whatever the endpoints answer (it
\* returns, or an exception leaves it), and up to any point it has sent at
\* most four activity requests per roster member: at most four for each
\* member up to the one at the index, and so at most 4 * |roster| in all.
RequestBound ==
    /\ meter.requests <= 4 * Len(threads[1].clan_members)
    /\ InLoop(threads[1]) => meter.requests <= 4 * (threads[1].index + 1)

RunEnded == threads[1].pc \in {"insert", "done", "crashed"}

C19_Terminates == []RequestBound /\ <>RunEnded

\* every member was rejected three times and then fetched: the run has
\* ended with exactly four requests per member
C19_Witness ==
    /\ threads[1].pc = "done"
    /\ threads[1].exit = "complete"
    /\ threads[1].clan_members # <<>>
    /\ threads[1].num_success = Len(threads[1].clan_members)
    /\ meter.requests = 4 * Len(threads[1].clan_members)

\* C20 (as claimed): after close has set the cancellation flag the run sends
\* at most one more activity request and sleeps at most one more backoff, and
\* it returns: when the thread has ended, it has ended by returning and the
\* events it had gathered are in the store.
C20_Claim ==
    /\ meter.requests_after_cancel <= 1
    /\ meter.sleeps_after_cancel <= 1
    /\ (task_cancel_event /\ threads[1].pc \in {"done", "crashed"}) =>
          /\ threads[1].pc = "done"
          /\ \A i \in 1..Len(threads[1].user_cap_events) :
                Stored(threads[1].user_cap_events[i])

====
